---- MODULE Spec2Model ----
(***************************************************************************)
(* Model of utils/gpu_video_extractor.py: GPUVideoFrameExtractor.          *)
(*                                                                         *)
(* File names are sequences of string tokens; a timestamp is a record      *)
(* [date, hour, sec, frac] where frac counts 1/TicksPerSec of a second.    *)
(* A frame rate is the rational fpsN / FpsDen.                             *)
(***************************************************************************)
EXTENDS Integers, Sequences, FiniteSets, TLC

\* ------------------------------------------------------------------ bounds
\* Sub-second resolution of timestamps (ticks per second).
TicksPerSec == 2
\* Denominator of the frame rates reported by the decoder.
FpsDen == 2
\* Largest number of files in the recording directory of SpecLocate.
MaxFiles == 2
\* Largest number of leading records in front of the repeated record.
MaxHead == 1
\* Largest number of rows of a sparse record stream.
MaxRows == 2

\* ------------------------------------------------------- program constants
\* len(records) > 10 selects extract_frames_memory_efficient.
DensityThreshold == 10
\* fps <= 0 is replaced by 30.
FallbackFps == 30

\* -------------------------------------------------------------- vocabulary
\* Python's None, and an absent path: the empty sequence.
None == <<>>

Range(s) == {s[i] : i \in DOMAIN s}
Min(a, b) == IF a <= b THEN a ELSE b
Max(a, b) == IF a >= b THEN a ELSE b
Abs(a) == IF a >= 0 THEN a ELSE -a
\* Python's int() of the rational n / d (d > 0): truncation toward zero.
Trunc(n, d) == IF n >= 0 THEN n \div d ELSE -((-n) \div d)

Users == {1, 2}
Dates == {1, 2}
Hours == {10, 11}
Secs == {0, 1, 2}

UserTok == [u \in Users |-> IF u = 1 THEN "1" ELSE "2"]
\* strftime('%Y-%m-%d')
DateTok == [d \in Dates |-> IF d = 1 THEN "2023-05-01" ELSE "2023-05-02"]
\* strftime('%H')
HourTok == [h \in Hours |-> IF h = 10 THEN "10" ELSE "11"]
\* the MM-SS part of a recording's file name
MinSecTok == [s \in Secs |-> CASE s = 0 -> "00-00" [] s = 1 -> "00-01" [] OTHER -> "00-02"]
\* strftime('%M%S')
OutMinSecTok == [s \in Secs |-> CASE s = 0 -> "0000" [] s = 1 -> "0001" [] OTHER -> "0002"]

Timestamps == [date : Dates, hour : Hours, sec : Secs, frac : 0..(TicksPerSec - 1)]

\* Seconds since the epoch of the model's calendar, in ticks.
Ticks(ts) == ((ts.date * 86400) + (ts.hour * 3600) + ts.sec) * TicksPerSec + ts.frac

\* A recording named user{u}-{date} {HH}-{MM-SS}.{ext}
VideoName(u, d, h, s, ext) ==
    <<"user", UserTok[u], "-", DateTok[d], " ", HourTok[h], "-", MinSecTok[s], ".", ext>>
\* A file of the right user, date and hour whose time part is not MM-SS.
JunkName(u, d, h, ext) ==
    <<"user", UserTok[u], "-", DateTok[d], " ", HourTok[h], "-", "junk", ".", ext>>
\* A file of the right user and date that carries no time at all.
DateOnlyName(u, d, ext) ==
    <<"user", UserTok[u], "-", DateTok[d], ".", ext>>

\* ----------------------------------------------------------------- state
VARIABLES
    dir,            \* the recording directory: files [name, opens, fpsN, frames, count]
                    \* in listing order
    disk,           \* the output folder: [room, onFull]
    df,             \* the loaded record stream (rows of the data frame)
    mainPc,         \* position of process_all_records
    video_groups,   \* list of [path, records] in insertion order of the dict
    unresolved,     \* rows for which find_video_file returned None
    task,           \* per group: the state of its process_video_group call
    collected,      \* number of groups whose results the main thread consumed
    successful_extractions,
    failed_extractions,
    seeks,          \* history: every cap.set(CAP_PROP_POS_FRAMES, ..) issued
    written,        \* history: every imwrite that returned True
    located         \* the last find_video_file call made on its own: <<>> or
                    \* <<[user_id, timestamp, result]>>

vars == <<dir, disk, df, mainPc, video_groups, unresolved, task, collected,
          successful_extractions, failed_extractions, seeks, written, located>>

\* ------------------------------------------------------------ find_video_file
\* fnmatch of a pattern prefix*suffix against a name.
GlobMatch(prefix, suffix, name) ==
    /\ Len(name) >= Len(prefix) + Len(suffix)
    /\ SubSeq(name, 1, Len(prefix)) = prefix
    /\ SubSeq(name, Len(name) - Len(suffix) + 1, Len(name)) = suffix

\* glob.glob: the names of the listing that match, in listing order.
Glob(listing, prefix, suffix) ==
    SelectSeq(listing, LAMBDA name : GlobMatch(prefix, suffix, name))

\* f"user{user_id}-{date_str} {hour_str}-*.{ext}"
HourPrefix(user_id, timestamp) ==
    <<"user", UserTok[user_id], "-", DateTok[timestamp.date], " ", HourTok[timestamp.hour], "-">>
\* f"user{user_id}-{date_str}*.{ext}"
DatePrefix(user_id, timestamp) ==
    <<"user", UserTok[user_id], "-", DateTok[timestamp.date]>>

\* Mutant: the date-only scan is tried before the hour-specific patterns.
find_video_file_dateFirst(listing, user_id, timestamp) ==
    LET video_files == Glob(listing, DatePrefix(user_id, timestamp), <<".", "mp4">>)
                       \o Glob(listing, DatePrefix(user_id, timestamp), <<".", "mkv">>)
    IN  IF video_files # <<>> THEN video_files[1] ELSE None

find_video_file(listing, user_id, timestamp) ==
    LET mp4 == Glob(listing, HourPrefix(user_id, timestamp), <<".", "mp4">>)
        mkv == Glob(listing, HourPrefix(user_id, timestamp), <<".", "mkv">>)
        video_files == Glob(listing, DatePrefix(user_id, timestamp), <<".", "mp4">>)
                       \o Glob(listing, DatePrefix(user_id, timestamp), <<".", "mkv">>)
    IN  IF mp4 # <<>> THEN mp4[1]
        ELSE IF mkv # <<>> THEN mkv[1]
        ELSE IF video_files # <<>> THEN video_files[1]
        ELSE None

\* ------------------------------------------------------- group_records_by_video
Names(listing) == [i \in DOMAIN listing |-> listing[i].name]

\* The file of the directory behind a path.
Media(path) == CHOOSE f \in Range(dir) : f.name = path

RECURSIVE AddRows(_, _, _, _)
\* The loop of group_records_by_video from row i on; groups is the dict so far,
\* as the list of its items.
AddRows(listing, rows, i, groups) ==
    IF i > Len(rows) THEN groups
    ELSE LET row == rows[i]
             video_path == find_video_file(listing, row.user_id, row.timestamp)
             rec == [index |-> i - 1, user_id |-> row.user_id,
                     timestamp |-> row.timestamp, page |-> row.page]
             hit == {g \in DOMAIN groups : groups[g].path = video_path}
         IN  IF video_path = None THEN AddRows(listing, rows, i + 1, groups)
             ELSE IF hit # {}
                  THEN LET g == CHOOSE x \in hit : TRUE
                       IN  AddRows(listing, rows, i + 1,
                               [groups EXCEPT ![g].records = Append(@, rec)])
                  ELSE AddRows(listing, rows, i + 1,
                               Append(groups, [path |-> video_path, records |-> <<rec>>]))

\* Mutant: the rows are not keyed by their path: every resolved row joins the group
\* of the first resolved row.
group_records_by_video_oneGroup(listing, rows) ==
    LET resolved == SelectSeq([i \in DOMAIN rows |-> i],
                        LAMBDA i : find_video_file(listing, rows[i].user_id,
                                                   rows[i].timestamp) # None)
    IN  IF resolved = <<>> THEN <<>>
        ELSE <<[path |-> find_video_file(listing, rows[resolved[1]].user_id,
                                         rows[resolved[1]].timestamp),
                records |-> [k \in DOMAIN resolved |->
                               [index |-> resolved[k] - 1,
                                user_id |-> rows[resolved[k]].user_id,
                                timestamp |-> rows[resolved[k]].timestamp,
                                page |-> rows[resolved[k]].page]]]>>

\* Mutant: every resolved row opens a group of its own, so a path can key two groups.
group_records_by_video_perRow(listing, rows) ==
    LET resolved == SelectSeq([i \in DOMAIN rows |-> i],
                        LAMBDA i : find_video_file(listing, rows[i].user_id,
                                                   rows[i].timestamp) # None)
    IN  [k \in DOMAIN resolved |->
            [path |-> find_video_file(listing, rows[resolved[k]].user_id,
                                      rows[resolved[k]].timestamp),
             records |-> <<[index |-> resolved[k] - 1,
                            user_id |-> rows[resolved[k]].user_id,
                            timestamp |-> rows[resolved[k]].timestamp,
                            page |-> rows[resolved[k]].page]>>]]

group_records_by_video(listing, rows) == AddRows(listing, rows, 1, <<>>)

\* The rows group_records_by_video skips (find_video_file returned None).
UnresolvedRows(listing, rows) ==
    {i \in DOMAIN rows : find_video_file(listing, rows[i].user_id, rows[i].timestamp) = None}

\* ---------------------------------------------------- extract_video_start_time
FirstIndex(s, tok) ==
    IF \E i \in DOMAIN s : s[i] = tok
    THEN CHOOSE i \in DOMAIN s : s[i] = tok /\ \A j \in 1..(i - 1) : s[j] # tok
    ELSE 0
LastIndex(s, tok) ==
    IF \E i \in DOMAIN s : s[i] = tok
    THEN CHOOSE i \in DOMAIN s : s[i] = tok /\ \A j \in (i + 1)..Len(s) : s[j] # tok
    ELSE 0

\* basename.split('-', 1)[1].rsplit('.', 1)[0]; <<>> stands for the IndexError.
TimePart(name) ==
    LET dash == FirstIndex(name, "-")
        rest == SubSeq(name, dash + 1, Len(name))
        dot  == LastIndex(rest, ".")
    IN  IF dash = 0 THEN <<>>
        ELSE IF dot = 0 THEN rest ELSE SubSeq(rest, 1, dot - 1)

\* datetime.strptime(time_part, '%Y-%m-%d %H-%M-%S'): <<ts>>, or <<>> when it raises
\* (the except clause returns None).
extract_video_start_time(video_filename) ==
    LET tp == TimePart(video_filename)
    IN  IF /\ Len(tp) = 5
           /\ tp[1] \in Range(DateTok) /\ tp[2] = " "
           /\ tp[3] \in Range(HourTok) /\ tp[4] = "-"
           /\ tp[5] \in Range(MinSecTok)
        THEN <<[date |-> CHOOSE d \in Dates : DateTok[d] = tp[1],
                hour |-> CHOOSE h \in Hours : HourTok[h] = tp[3],
                sec  |-> CHOOSE x \in Secs : MinSecTok[x] = tp[5],
                frac |-> 0]>>
        ELSE None

\* ---------------------------------------------------- generate_output_filename
Pages == {"/tantangan/penjumlahan-dua-angka", "/tantangan/status-http", "/lain"}

page_mapping(page) ==
    CASE page = "/tantangan/penjumlahan-dua-angka" -> "challenge1"
      [] page = "/tantangan/status-http" -> "challenge2"
      [] OTHER -> "challenge_unknown"

generate_output_filename(user_id, timestamp, page) ==
    <<"user", UserTok[user_id], "_", page_mapping(page), "_time",
      HourTok[timestamp.hour], OutMinSecTok[timestamp.sec], ".jpg">>

\* ------------------------------------------------------------ frame arithmetic
\* (timestamp - video_start_time).total_seconds(), in ticks.
TimeOffset(record, video_start_time) == Ticks(record.timestamp) - Ticks(video_start_time)

\* fps <= 0 is replaced by 30; the rate as a numerator over FpsDen.
EffectiveFps(fpsN) == IF fpsN <= 0 THEN FallbackFps * FpsDen ELSE fpsN

\* int(time_offset * fps)
FrameNumber(off, fpsN) == Trunc(off * fpsN, TicksPerSec * FpsDen)

\* sorted(records, key=lambda x: x['timestamp']): stable, so a record comes after
\* the records of smaller timestamp and the earlier records of equal timestamp.
SortByTimestamp(records) ==
    LET key(i) == Ticks(records[i].timestamp)
        before(i) == {j \in DOMAIN records :
                         key(j) < key(i) \/ (key(j) = key(i) /\ j < i)}
    IN  [p \in DOMAIN records |->
            records[CHOOSE i \in DOMAIN records : Cardinality(before(i)) = p - 1]]

\* int(time_offset) of a non-negative offset: the bucket of the record.
Second(off) == Trunc(off, TicksPerSec)

\* time_groups[second]: the (time_offset, record) pairs in insertion order.
TimeGroup(records, video_start_time, second) ==
    SelectSeq(records, LAMBDA r : /\ TimeOffset(r, video_start_time) >= 0
                                  /\ Second(TimeOffset(r, video_start_time)) = second)

\* The numbers of S in ascending order.
Ascending(S) ==
    [p \in 1..Cardinality(S) |->
        CHOOSE x \in S : Cardinality({y \in S : y < x}) = p - 1]

\* sorted(time_groups.keys())
SortedSeconds(records, video_start_time) ==
    Ascending({Second(TimeOffset(records[i], video_start_time)) :
                  i \in {j \in DOMAIN records : TimeOffset(records[j], video_start_time) >= 0}})

\* abs(frame_time - time_offset) for buffered frame i, scaled by TicksPerSec * fps.
FrameDiff(second, i, off, fpsN) ==
    Abs(second * TicksPerSec * fpsN + i * FpsDen * TicksPerSec - off * fpsN)

\* Mutant: the last of the buffered frames is taken.
ClosestFrame_last(second, n, off, fpsN) == n - 1

\* The loop over frames_buffer: the first frame of least diff (n > 0 frames).
ClosestFrame(second, n, off, fpsN) ==
    CHOOSE i \in 0..(n - 1) :
        /\ \A j \in 0..(n - 1) : FrameDiff(second, i, off, fpsN) <= FrameDiff(second, j, off, fpsN)
        /\ \A j \in 0..(i - 1) : FrameDiff(second, j, off, fpsN) > FrameDiff(second, i, off, fpsN)

\* ------------------------------------------------------------------ outcomes
\* One (success, message) pair of a results list. kind names the message; rec, frame
\* and path record which row it stands for, the frame read and the file written.
Outcome(ok, kind, rec, frame, path) ==
    [ok |-> ok, kind |-> kind, rec |-> rec, frame |-> frame, path |-> path]

\* [(False, message) for _ in records]
AllFail(records, kind) ==
    [i \in 1..Len(records) |-> Outcome(FALSE, kind, records[i].index, -1, None)]

NewTask ==
    [pc |-> "queued", strategy |-> "none", cap |-> "none", start |-> None,
     fps |-> 0, total_frames |-> 0, i |-> 1, k |-> 1, j |-> 1,
     sorted_records |-> <<>>, seconds |-> <<>>,
     buf |-> [pos |-> 0, n |-> 0], results |-> <<>>]

Groups == DOMAIN video_groups
Records(g) == video_groups[g].records

\* ------------------------------------------------------------- the output folder
\* cv2.imwrite: "true", "false", or "raise" (a cv2.error), as the folder decides.
imwrite == IF disk.room # 0 THEN "true" ELSE disk.onFull

\* Generate the output path and save the frame; t is the task with its loop
\* counters advanced. An exception leaves through the except clause of the strategy.
SaveFrame(g, t, record, frame) ==
    LET output_path == generate_output_filename(record.user_id, record.timestamp, record.page)
    IN  CASE imwrite = "true" ->
               /\ task' = [task EXCEPT ![g] = [t EXCEPT !.results =
                      Append(@, Outcome(TRUE, "Success", record.index, frame, output_path))]]
               /\ disk' = [disk EXCEPT !.room = IF @ > 0 THEN @ - 1 ELSE @]
               /\ written' = written \cup {[g |-> g, path |-> output_path, rec |-> record.index]}
          [] imwrite = "false" ->
               /\ task' = [task EXCEPT ![g] = [t EXCEPT !.results =
                      Append(@, Outcome(FALSE, "WriteError", record.index, frame, None))]]
               /\ UNCHANGED <<disk, written>>
          [] OTHER ->
               /\ task' = [task EXCEPT ![g] = [t EXCEPT !.pc = "done",
                      !.results = AllFail(Records(g), "Exception")]]
               /\ UNCHANGED <<disk, written>>

\* ---------------------------------------------------------- process_video_group
\* Mutant: the threshold comparison is >= instead of >.
SelectStrategy_offByOne(n) == IF n >= DensityThreshold THEN "BufferedWindow" ELSE "DirectSeek"

\* len(records) > 10
SelectStrategy(n) == IF n > DensityThreshold THEN "BufferedWindow" ELSE "DirectSeek"

\* Tasks a worker thread is running.
Running == {g \in Groups : task[g].pc \notin {"queued", "done"}}

\* ThreadPoolExecutor(max_workers=min(self.max_workers, len(video_groups)))
max_workers == 2
PoolSize == Min(max_workers, Len(video_groups))

\* Mutant: a file name that cannot be parsed is given the epoch as start time.
StartOrFail_lenient(path) ==
    IF extract_video_start_time(path) = None
    THEN <<[date |-> 1, hour |-> 10, sec |-> 0, frac |-> 0]>>
    ELSE extract_video_start_time(path)

\* video_start_time = self.extract_video_start_time(video_path)
StartOrFail(path) == extract_video_start_time(path)

\* A worker takes the next queued group: the start time is parsed, the strategy is
\* chosen and the strategy opens the decoder and reads its properties.
CanStart(g) ==
    /\ mainPc = "collect"
    /\ task[g].pc = "queued"
    /\ \A h \in Groups : h < g => task[h].pc # "queued"
    /\ Cardinality(Running) < PoolSize

StartTask(g) ==
    /\ CanStart(g)
    /\ LET path == video_groups[g].path
           video_start_time == StartOrFail(path)
           strategy == SelectStrategy(Len(Records(g)))
           m == Media(path)
       IN  IF video_start_time = None
           THEN task' = [task EXCEPT ![g] = [@ EXCEPT !.pc = "done",
                    !.results = AllFail(Records(g), "MalformedFileName")]]
           ELSE IF ~m.opens
           THEN task' = [task EXCEPT ![g] = [@ EXCEPT !.pc = "done",
                    !.strategy = strategy, !.cap = "failed",
                    !.start = video_start_time,
                    !.results = AllFail(Records(g), "OpenError")]]
           ELSE task' = [task EXCEPT ![g] = [@ EXCEPT !.pc = strategy,
                    !.strategy = strategy, !.cap = "open",
                    !.start = video_start_time,
                    !.fps = EffectiveFps(m.fpsN),
                    !.total_frames = m.count,
                    !.sorted_records = IF strategy = "DirectSeek"
                                       THEN SortByTimestamp(Records(g)) ELSE <<>>,
                    !.seconds = IF strategy = "BufferedWindow"
                                THEN SortedSeconds(Records(g), video_start_time[1])
                                ELSE <<>>]]
    /\ UNCHANGED <<dir, disk, df, mainPc, video_groups, unresolved, collected,
                   successful_extractions, failed_extractions, seeks, written, located>>

\* --------------------------------------------------- extract_frames_opencv_gpu
\* One iteration of the loop over sorted_records.
DirectRecord(g) ==
    /\ task[g].pc = "DirectSeek"
    /\ task[g].i <= Len(Records(g))
    /\ LET t == task[g]
           record == t.sorted_records[t.i]
           time_offset == TimeOffset(record, t.start[1])
           frame_number == FrameNumber(time_offset, t.fps)
           next == [t EXCEPT !.i = @ + 1]
       IN  IF time_offset < 0
           THEN /\ task' = [task EXCEPT ![g] = [next EXCEPT !.results =
                        Append(@, Outcome(FALSE, "TimestampBeforeStart", record.index, -1, None))]]
                /\ UNCHANGED <<disk, written, seeks>>
           ELSE /\ seeks' = seeks \cup {[g |-> g, pos |-> frame_number, recs |-> {record.index}]}
                /\ IF frame_number >= Media(video_groups[g].path).frames
                   THEN /\ task' = [task EXCEPT ![g] = [next EXCEPT !.results =
                                Append(@, Outcome(FALSE, "ReadError", record.index, frame_number, None))]]
                        /\ UNCHANGED <<disk, written>>
                   ELSE SaveFrame(g, next, record, frame_number)
    /\ UNCHANGED <<dir, df, mainPc, video_groups, unresolved, collected,
                   successful_extractions, failed_extractions, located>>

\* cap.release(); return results
DirectFinish(g) ==
    /\ task[g].pc = "DirectSeek"
    /\ task[g].i > Len(Records(g))
    /\ task' = [task EXCEPT ![g] = [@ EXCEPT !.pc = "done", !.cap = "released"]]
    /\ UNCHANGED <<dir, disk, df, mainPc, video_groups, unresolved, collected,
                   successful_extractions, failed_extractions, seeks, written, located>>

\* ----------------------------------------------- extract_frames_memory_efficient
\* The head of one iteration of the loop over sorted(time_groups.keys()): the
\* duration test, the seek and the reads into frames_buffer.
BufferedBucket(g) ==
    /\ task[g].pc = "BufferedWindow"
    /\ task[g].k <= Len(task[g].seconds)
    /\ LET t == task[g]
           second == t.seconds[t.k]
           bucket == TimeGroup(Records(g), t.start[1], second)
           pos == Trunc(second * t.fps, FpsDen)
           n == Max(0, Min(Trunc(t.fps, FpsDen) + 1, Media(video_groups[g].path).frames - pos))
       IN  IF second * t.fps >= t.total_frames * FpsDen
           THEN /\ task' = [task EXCEPT ![g] = [t EXCEPT !.k = @ + 1,
                        !.results = @ \o AllFail(bucket, "OutOfRange")]]
                /\ UNCHANGED seeks
           ELSE /\ task' = [task EXCEPT ![g] = [t EXCEPT !.pc = "BufferedRecord",
                        !.j = 1, !.buf = [pos |-> pos, n |-> n]]]
                /\ seeks' = seeks \cup {[g |-> g, pos |-> pos,
                                 recs |-> {bucket[x].index : x \in DOMAIN bucket}]}
    /\ UNCHANGED <<dir, disk, df, mainPc, video_groups, unresolved, collected,
                   successful_extractions, failed_extractions, written, located>>

\* One iteration of the loop over time_groups[second]: the closest buffered frame
\* is saved.
BufferedRecord(g) ==
    /\ task[g].pc = "BufferedRecord"
    /\ LET t == task[g]
           second == t.seconds[t.k]
           bucket == TimeGroup(Records(g), t.start[1], second)
           record == bucket[t.j]
           time_offset == TimeOffset(record, t.start[1])
           next == IF t.j < Len(bucket) THEN [t EXCEPT !.j = @ + 1]
                   ELSE [t EXCEPT !.pc = "BufferedWindow", !.k = @ + 1, !.j = 1]
       IN  IF t.buf.n = 0
           THEN /\ task' = [task EXCEPT ![g] = [next EXCEPT !.results =
                        Append(@, Outcome(FALSE, "ReadError", record.index, -1, None))]]
                /\ UNCHANGED <<disk, written>>
           ELSE SaveFrame(g, next, record,
                          t.buf.pos + ClosestFrame(second, t.buf.n, time_offset, t.fps))
    /\ UNCHANGED <<dir, df, mainPc, video_groups, unresolved, collected,
                   successful_extractions, failed_extractions, seeks, located>>

\* cap.release(); return results
BufferedFinish(g) ==
    /\ task[g].pc = "BufferedWindow"
    /\ task[g].k > Len(task[g].seconds)
    /\ task' = [task EXCEPT ![g] = [@ EXCEPT !.pc = "done", !.cap = "released"]]
    /\ UNCHANGED <<dir, disk, df, mainPc, video_groups, unresolved, collected,
                   successful_extractions, failed_extractions, seeks, written, located>>

\* ---------------------------------------------------------- process_all_records
\* df = self.load_excel_data(); a failed load returns at once.
LoadExcelData ==
    /\ mainPc = "load"
    /\ \E loaded \in BOOLEAN : mainPc' = IF loaded THEN "group" ELSE "returned"
    /\ UNCHANGED <<dir, disk, df, video_groups, unresolved, task, collected,
                   successful_extractions, failed_extractions, seeks, written, located>>

\* video_groups = self.group_records_by_video(df)
GroupRecords ==
    /\ mainPc = "group"
    /\ video_groups' = group_records_by_video(Names(dir), df)
    /\ unresolved' = Cardinality(UnresolvedRows(Names(dir), df))
    /\ mainPc' = "pool"
    /\ UNCHANGED <<dir, disk, df, task, collected,
                   successful_extractions, failed_extractions, seeks, written, located>>

\* ThreadPoolExecutor raises ValueError when max_workers <= 0.
PoolFails == PoolSize <= 0

\* with ThreadPoolExecutor(...) as executor: executor.map(...) submits every group.
CreatePool ==
    /\ mainPc = "pool"
    /\ IF PoolFails
       THEN mainPc' = "crashed" /\ UNCHANGED task
       ELSE mainPc' = "collect" /\ task' = [g \in Groups |-> NewTask]
    /\ UNCHANGED <<dir, disk, df, video_groups, unresolved, collected,
                   successful_extractions, failed_extractions, seeks, written, located>>

CountOk(results) == Cardinality({i \in DOMAIN results : results[i].ok})

\* for results in all_results: the next group's results, once its task is done.
CanCollect ==
    /\ mainPc = "collect"
    /\ collected < Len(video_groups)
    /\ task[collected + 1].pc = "done"

CollectResults ==
    /\ CanCollect
    /\ LET results == task[collected + 1].results
       IN  /\ successful_extractions' = successful_extractions + CountOk(results)
           /\ failed_extractions' = failed_extractions + (Len(results) - CountOk(results))
    /\ collected' = collected + 1
    /\ UNCHANGED <<dir, disk, df, mainPc, video_groups, unresolved, task,
                   seeks, written, located>>

\* The summary is printed.
CanSummarise ==
    /\ mainPc = "collect"
    /\ collected = Len(video_groups)

Summary ==
    /\ CanSummarise
    /\ mainPc' = "done"
    /\ UNCHANGED <<dir, disk, df, video_groups, unresolved, task, collected,
                   successful_extractions, failed_extractions, seeks, written, located>>

Next ==
    \/ LoadExcelData
    \/ GroupRecords
    \/ CreatePool
    \/ \E g \in DOMAIN task : StartTask(g)
    \/ \E g \in DOMAIN task : DirectRecord(g)
    \/ \E g \in DOMAIN task : DirectFinish(g)
    \/ \E g \in DOMAIN task : BufferedBucket(g)
    \/ \E g \in DOMAIN task : BufferedRecord(g)
    \/ \E g \in DOMAIN task : BufferedFinish(g)
    \/ CollectResults
    \/ Summary

\* ----------------------------------------------------------------- the inputs
File(name, opens, fpsN, frames, count) ==
    [name |-> name, opens |-> opens, fpsN |-> fpsN, frames |-> frames, count |-> count]

Row(user_id, date, hour, sec, frac, page) ==
    [user_id |-> user_id, page |-> page,
     timestamp |-> [date |-> date, hour |-> hour, sec |-> sec, frac |-> frac]]

\* Listings of at most n files of S with distinct names.
Listings(S, n) ==
    {l \in UNION {[1..k -> S] : k \in 0..n} :
        \A a, b \in DOMAIN l : a # b => l[a].name # l[b].name}

\* The output folder: room for any number of frames, or full after room frames.
DiskStates ==
    {[room |-> -1, onFull |-> "false"], [room |-> 0, onFull |-> "false"],
     [room |-> 1, onFull |-> "false"], [room |-> 1, onFull |-> "raise"]}

Idle ==
    /\ mainPc = "load"
    /\ video_groups = <<>>
    /\ unresolved = 0
    /\ task = <<>>
    /\ collected = 0
    /\ successful_extractions = 0
    /\ failed_extractions = 0
    /\ seeks = {}
    /\ written = {}
    /\ located = <<>>

\* Sparse streams over several recordings.
SparseFiles ==
    {File(VideoName(1, 1, 10, 1, "mp4"), TRUE, 5, 100, 100),
     File(VideoName(1, 2, 10, 0, "mp4"), TRUE, 4, 100, 100),
     File(VideoName(1, 2, 10, 0, "mp4"), FALSE, 0, 0, 0),
     File(JunkName(1, 1, 11, "mkv"), TRUE, 4, 100, 100)}

SparseRows ==
    {Row(1, 1, 10, 2, 0, "/tantangan/status-http"),
     Row(1, 2, 10, 2, 0, "/tantangan/status-http"),
     Row(1, 1, 11, 0, 0, "/lain"),
     Row(1, 1, 10, 0, 0, "/lain"),
     Row(2, 1, 10, 2, 0, "/tantangan/status-http")}

InitSparse ==
    /\ dir \in Listings(SparseFiles, Cardinality(SparseFiles))
    /\ disk \in DiskStates
    /\ df \in UNION {[1..n -> SparseRows] : n \in 0..MaxRows}
    /\ Idle

\* Dense streams against one recording: at most MaxHead rows, then one row repeated
\* as often as the threshold, or once more.
DenseFiles ==
    {File(VideoName(1, 1, 10, 1, "mp4"), FALSE, 0, 0, 0),
     File(JunkName(1, 1, 10, "mp4"), TRUE, 4, 100, 100)}
    \cup {File(VideoName(1, 1, 10, 1, "mp4"), TRUE, c[1], c[2], c[3]) :
             c \in {<<3, 100, 100>>, <<4, 100, 100>>, <<0, 100, 100>>,
                    <<3, 100, 0>>, <<4, 2, 2>>, <<3, 0, 100>>}}

DenseRows ==
    {Row(1, 1, 10, 0, 0, "/lain"),
     Row(1, 1, 10, 1, 0, "/tantangan/penjumlahan-dua-angka"),
     Row(1, 1, 10, 1, 1, "/tantangan/penjumlahan-dua-angka"),
     Row(1, 1, 10, 2, 0, "/tantangan/status-http"),
     Row(2, 1, 10, 2, 0, "/tantangan/status-http")}

DenseStreams ==
    {head \o [i \in 1..n |-> bulk] :
        head \in UNION {[1..h -> DenseRows] : h \in 0..MaxHead},
        bulk \in DenseRows,
        n \in {DensityThreshold, DensityThreshold + 1}}

InitDense ==
    /\ dir \in Listings(DenseFiles, 1) \ {<<>>}
    /\ disk \in DiskStates
    /\ df \in DenseStreams
    /\ Idle

Init == InitSparse \/ InitDense

Spec == Init /\ [][Next]_vars

\* ------------------------------------------------ find_video_file on its own
LocateFiles ==
    {File(VideoName(u, d, h, 0, ext), TRUE, 4, 100, 100) :
        u \in Users, d \in Dates, h \in Hours, ext \in {"mp4", "mkv"}}
    \cup {File(DateOnlyName(1, 1, "mp4"), TRUE, 4, 100, 100),
          File(JunkName(1, 1, 10, "mkv"), TRUE, 4, 100, 100),
          File(VideoName(1, 1, 10, 0, "txt"), TRUE, 4, 100, 100)}

InitLocate ==
    /\ dir \in Listings(LocateFiles, MaxFiles)
    /\ disk = [room |-> -1, onFull |-> "false"]
    /\ df = <<>>
    /\ Idle

\* One call self.find_video_file(user_id, timestamp).
Locate ==
    /\ \E user_id \in Users, timestamp \in {ts \in Timestamps : ts.sec = 0 /\ ts.frac = 0} :
          located' = <<[user_id |-> user_id, timestamp |-> timestamp,
                        result |-> find_video_file(Names(dir), user_id, timestamp)]>>
    /\ UNCHANGED <<dir, disk, df, mainPc, video_groups, unresolved, task, collected,
                   successful_extractions, failed_extractions, seeks, written>>

NextLocate == Locate

SpecLocate == InitLocate /\ [][NextLocate]_vars

\* ------------------------------------------------------------------- claims
Finished(g) == task[g].pc = "done"

\* (timestamp - start_time) of a record of group g, in ticks, once the start time
\* of the recording is known.
Elapsed(g, r) == TimeOffset(r, extract_video_start_time(video_groups[g].path)[1])

\* The outcomes of group g that stand for row index x.
OutcomesOf(g, x) == {i \in DOMAIN task[g].results : task[g].results[i].rec = x}

\* A task that ran its strategy to the end (no fatal error, no exception).
RanToEnd(g) == Finished(g) /\ task[g].cap = "released"

\* C1: when process_all_records has printed its summary, successes + failures +
\* unresolved equals the number of input records.
C1_TalliesCoverEveryRecord ==
    mainPc = "done" =>
        successful_extractions + failed_extractions + unresolved = Len(df)

\* C2: a finished task has returned exactly one outcome per input record: the
\* results list is as long as the record list and every record has one outcome.
C2_OneOutcomePerRecord ==
    \A g \in DOMAIN task :
        Finished(g) =>
            /\ Len(task[g].results) = Len(Records(g))
            /\ \A x \in DOMAIN Records(g) :
                  Cardinality(OutcomesOf(g, Records(g)[x].index)) = 1

\* C3: under both strategies a record with negative elapsed time gets a
\* TimestampBeforeStart outcome, and no seek is issued on its behalf.
C3_BeforeStartFailsWithoutSeek ==
    \A g \in DOMAIN task :
        /\ RanToEnd(g) =>
              \A x \in DOMAIN Records(g) :
                  Elapsed(g, Records(g)[x]) < 0 =>
                      \E i \in OutcomesOf(g, Records(g)[x].index) :
                          task[g].results[i].kind = "TimestampBeforeStart"
        /\ \A sk \in seeks :
              sk.g = g =>
                  /\ sk.pos >= 0
                  /\ \A x \in DOMAIN Records(g) :
                        Records(g)[x].index \in sk.recs => Elapsed(g, Records(g)[x]) >= 0

\* C4: process_all_records never ends with an uncaught error, whatever the record
\* stream and the directory.
C4_NoUncaughtError == mainPc # "crashed"

\* C5: no task returns with its opened decoder still held.
C5_DecoderReleasedAtReturn ==
    \A g \in DOMAIN task : Finished(g) => task[g].cap # "open"

\* C6: tasks of different groups never write the same output file name.
C6_DisjointOutputNames ==
    \A a, b \in written : a.g # b.g => a.path # b.path

\* C7: whenever process_video_group selects a strategy, it is DirectSeek for a
\* group of at most 10 records and BufferedWindow for a larger one, whatever the
\* recording, the output folder and the records are; a group runs no strategy only
\* when its file name gives no start time.
C7_StrategyBySize ==
    \A g \in DOMAIN task :
        /\ task[g].pc \in {"DirectSeek"} => Len(Records(g)) <= DensityThreshold
        /\ task[g].pc \in {"BufferedWindow", "BufferedRecord"} =>
              Len(Records(g)) > DensityThreshold
        /\ task[g].strategy = "DirectSeek" => Len(Records(g)) <= DensityThreshold
        /\ task[g].strategy = "BufferedWindow" => Len(Records(g)) > DensityThreshold
        /\ Finished(g) /\ task[g].strategy = "none" =>
              extract_video_start_time(video_groups[g].path) = None

C7_Witness ==
    \E g \in DOMAIN task :
        /\ Finished(g)
        /\ Len(Records(g)) = DensityThreshold + 1
        /\ task[g].strategy = "BufferedWindow"
        /\ \E i \in DOMAIN task[g].results : task[g].results[i].ok

\* floor(elapsed * frame_rate) for a record of group g with elapsed >= 0.
FloorIndex(g, r) == (Elapsed(g, r) * task[g].fps) \div (TicksPerSec * FpsDen)

RecordOf(g, x) == CHOOSE r \in Range(Records(g)) : r.index = x

\* C8 (as stated): every written frame is the one at index
\* floor((timestamp - start_time) * frame_rate), under both strategies, for
\* integer and fractional elapsed times.
C8_FrameIsFloor ==
    \A g \in DOMAIN task :
        \A i \in DOMAIN task[g].results :
            task[g].results[i].ok =>
                task[g].results[i].frame = FloorIndex(g, RecordOf(g, task[g].results[i].rec))

\* C8 (amended): every frame written by DirectSeek is the one at index
\* floor(elapsed * frame_rate); a frame written by BufferedWindow is the one at
\* that index when the elapsed time is a whole number of seconds.
C8_FrameIsFloorWholeSeconds ==
    \A g \in DOMAIN task :
        \A i \in DOMAIN task[g].results :
            LET o == task[g].results[i]
            IN  /\ o.ok
                /\ \/ task[g].strategy = "DirectSeek"
                   \/ Elapsed(g, RecordOf(g, o.rec)) % TicksPerSec = 0
                => o.frame = FloorIndex(g, RecordOf(g, o.rec))

C8_Witness ==
    \E g \in DOMAIN task :
        \E i \in DOMAIN task[g].results :
            LET o == task[g].results[i]
            IN  /\ o.ok
                /\ task[g].strategy = "BufferedWindow"
                /\ Elapsed(g, RecordOf(g, o.rec)) = TicksPerSec
                /\ task[g].fps % FpsDen # 0
                /\ o.frame = 1

\* The name is a recording (.mp4 or .mkv) of the user for the date of the timestamp.
NamesUserDate(name, user_id, timestamp) ==
    /\ Len(name) >= 6
    /\ name[1] = "user" /\ name[2] = UserTok[user_id] /\ name[3] = "-"
    /\ name[4] = DateTok[timestamp.date]
    /\ name[Len(name) - 1] = "." /\ name[Len(name)] \in {"mp4", "mkv"}

\* The name also carries the hour of the timestamp.
NamesUserDateHour(name, user_id, timestamp) ==
    /\ NamesUserDate(name, user_id, timestamp)
    /\ Len(name) >= 9
    /\ name[5] = " " /\ name[6] = HourTok[timestamp.hour] /\ name[7] = "-"

\* C9: find_video_file returns a recording that names the date and the hour of the
\* timestamp whenever the directory holds one for the user; a recording of the date
\* alone only when there is none of the hour; and None only when there is none of
\* the date.
C9_PrefersHourMatch ==
    located # <<>> =>
        LET q == located[1]
            byHour == {f \in Range(Names(dir)) : NamesUserDateHour(f, q.user_id, q.timestamp)}
            byDate == {f \in Range(Names(dir)) : NamesUserDate(f, q.user_id, q.timestamp)}
        IN  /\ byHour # {} => q.result \in byHour
            /\ byHour = {} /\ byDate # {} => q.result \in byDate
            /\ q.result = None <=> byDate = {}

C9_Witness ==
    /\ located # <<>>
    /\ Len(dir) >= 2
    /\ NamesUserDate(dir[1].name, located[1].user_id, located[1].timestamp)
    /\ ~NamesUserDateHour(dir[1].name, located[1].user_id, located[1].timestamp)
    /\ NamesUserDateHour(dir[2].name, located[1].user_id, located[1].timestamp)
    /\ located[1].result = dir[2].name

\* The kind of task-fatal error of group g, if any.
FatalKind(g) ==
    IF extract_video_start_time(video_groups[g].path) = None THEN "MalformedFileName"
    ELSE IF ~Media(video_groups[g].path).opens THEN "OpenError"
    ELSE "none"

\* C10: a task whose recording has a task-fatal error returns one failure of that
\* kind for every record of its group; the other tasks get no such failure, every
\* task can run on until it is done, and the summary counts the outcomes of them all.
C10_FatalErrorFailsOnlyItsGroup ==
    /\ \A g \in DOMAIN task :
          Finished(g) =>
              IF FatalKind(g) # "none"
              THEN task[g].results = AllFail(Records(g), FatalKind(g))
              ELSE \A i \in DOMAIN task[g].results :
                      task[g].results[i].kind \notin {"MalformedFileName", "OpenError"}
    /\ mainPc = "collect" =>
          \/ CanSummarise
          \/ CanCollect
          \/ \E g \in DOMAIN task : CanStart(g) \/ g \in Running
    /\ mainPc = "done" =>
          /\ \A g \in Groups : g \in DOMAIN task /\ Finished(g)
          /\ collected = Len(video_groups)
    /\ LET Outs == {<<g, i>> \in (1..collected) \X (1..Len(df)) :
                        i \in DOMAIN task[g].results}
       IN  /\ successful_extractions =
                 Cardinality({p \in Outs : task[p[1]].results[p[2]].ok})
           /\ failed_extractions =
                 Cardinality({p \in Outs : ~task[p[1]].results[p[2]].ok})

C10_Witness ==
    /\ mainPc = "done"
    /\ \E g, h \in DOMAIN task :
          /\ FatalKind(g) = "MalformedFileName"
          /\ FatalKind(h) = "none"
          /\ \E i \in DOMAIN task[h].results : task[h].results[i].ok
          /\ failed_extractions = Len(Records(g))
          /\ successful_extractions = Len(Records(h))

\* C11: each recording path is the key of one group, one task is dispatched per
\* group, and so no two tasks ever hold an open decoder of the same recording file.
C11_OneDecoderPerRecording ==
    /\ \A g, h \in Groups : g # h => video_groups[g].path # video_groups[h].path
    /\ mainPc \in {"collect", "done"} => DOMAIN task = Groups
    /\ \A g, h \in DOMAIN task :
          g # h /\ task[g].cap = "open" /\ task[h].cap = "open" =>
              video_groups[g].path # video_groups[h].path

C11_Witness ==
    \E g, h \in DOMAIN task :
        /\ g # h
        /\ g \in Running /\ h \in Running
        /\ task[g].cap = "open" /\ task[h].cap = "open"

\* The places <<g, x>> of the groups that hold the row of index n.
PlacesOf(n) ==
    {p \in Groups \X (1..Len(df)) :
        p[2] \in DOMAIN Records(p[1]) /\ Records(p[1])[p[2]].index = n}

SoughtFor(g, x) == \E sk \in seeks : sk.g = g /\ x \in sk.recs

\* C13: under DirectSeek, a record whose frame index is at or past the known frame
\* count of the recording is reported OutOfRange, and no seek is issued for it.
C13_DirectSeekOutOfRange ==
    \A g \in DOMAIN task :
        task[g].strategy = "DirectSeek" /\ RanToEnd(g) =>
            \A x \in DOMAIN Records(g) :
                LET r == Records(g)[x]
                    frame_count == Media(video_groups[g].path).count
                IN  /\ Elapsed(g, r) >= 0
                    /\ frame_count > 0
                    /\ FloorIndex(g, r) >= frame_count
                    => /\ \A i \in OutcomesOf(g, r.index) :
                             task[g].results[i].kind = "OutOfRange"
                       /\ ~SoughtFor(g, r.index)

\* C14: under BufferedWindow, a record is reported OutOfRange only when the frame
\* count is known (positive) and the first frame index of its bucket reaches it;
\* when the frame count is unknown, every bucket is sought.
C14_OutOfRangeOnlyWhenKnown ==
    \A g \in DOMAIN task :
        task[g].strategy = "BufferedWindow" =>
            LET frame_count == Media(video_groups[g].path).count
                first(r) == Trunc(Second(Elapsed(g, r)) * task[g].fps, FpsDen)
            IN  /\ \A i \in DOMAIN task[g].results :
                      task[g].results[i].kind = "OutOfRange" =>
                          /\ frame_count > 0
                          /\ first(RecordOf(g, task[g].results[i].rec)) >= frame_count
                /\ RanToEnd(g) /\ frame_count <= 0 =>
                      \A x \in DOMAIN Records(g) :
                          Elapsed(g, Records(g)[x]) >= 0 =>
                              SoughtFor(g, Records(g)[x].index)

====
